---- MODULE Spec2Model ----
(***************************************************************************)
(* Model of folder_scanner.py: main() parses sys.argv, scan_folder() walks *)
(* the entries that folder.rglob('*') yields and accumulates statistics,   *)
(* generate_report() renders them and save_report() writes the file.       *)
(*                                                                         *)
(* Strings are sequences of one-character strings, so that str.lower(),    *)
(* str.startswith('.'), Path.suffix and int() are modelled by what they    *)
(* do.  Python's None is the empty sequence None and a present value v is  *)
(* Some(v) = <<v>>.                                                        *)
(***************************************************************************)
EXTENDS Integers, Sequences, FiniteSets, TLC

\* ---------------------------------------------------------------- bounds
MaxItems == 3   \* entries yielded by folder.rglob('*')
MaxSize == 2    \* largest st_size of a file

\* --------------------------------------------------------------- options
None == <<>>
Some(v) == <<v>>

\* --------------------------------------------------------------- strings
Dot == "."
EmptyStr == <<>>

ToLowerChar(c) ==
  CASE c = "T" -> "t"
    [] c = "A" -> "a"
    [] c = "C" -> "c"
    [] OTHER -> c

\* str.lower()
Lower(s) == [k \in 1..Len(s) |-> ToLowerChar(s[k])]

\* str.startswith('.')
StartsWithDot(s) == Len(s) > 0 /\ s[1] = Dot

\* str.rfind('.') as a 1-based position, 0 when absent
RECURSIVE RFindDot(_, _)
RFindDot(s, k) ==
  IF k = 0 THEN 0
  ELSE IF s[k] = Dot THEN k ELSE RFindDot(s, k - 1)

\* pathlib's PurePath.suffix: the text from the last dot of the name on,
\* empty when there is no dot, or the dot leads or ends the name
PathSuffix(name) ==
  LET p == RFindDot(name, Len(name))
  IN IF 1 < p /\ p < Len(name) THEN SubSeq(name, p, Len(name)) ELSE EmptyStr

NoExtension == <<".", "n", "o", "-", "e", "x", "t", "e", "n", "s", "i", "o", "n">>

\* line 71: item.suffix.lower() if item.suffix else '.no-extension'
ExtensionOf(name) ==
  IF PathSuffix(name) /= EmptyStr THEN Lower(PathSuffix(name)) ELSE NoExtension

\* ------------------------------------------------------------------ int()
IsDigit(c) == c \in {"0", "1", "2", "3", "4", "5", "6", "7", "8", "9"}

DigitVal(c) ==
  CASE c = "0" -> 0 [] c = "1" -> 1 [] c = "2" -> 2 [] c = "3" -> 3
    [] c = "4" -> 4 [] c = "5" -> 5 [] c = "6" -> 6 [] c = "7" -> 7
    [] c = "8" -> 8 [] c = "9" -> 9

AllDigits(s) == Len(s) > 0 /\ \A k \in 1..Len(s) : IsDigit(s[k])

RECURSIVE DigitsValue(_)
DigitsValue(s) ==
  IF s = <<>> THEN 0
  ELSE DigitsValue(SubSeq(s, 1, Len(s) - 1)) * 10 + DigitVal(s[Len(s)])

\* int(token): an optional sign followed by decimal digits; anything else
\* raises ValueError (ok = FALSE)
ParseInt(tok) ==
  IF Len(tok) > 1 /\ tok[1] = "-" /\ AllDigits(Tail(tok))
    THEN [ok |-> TRUE, value |-> 0 - DigitsValue(Tail(tok))]
  ELSE IF Len(tok) > 1 /\ tok[1] = "+" /\ AllDigits(Tail(tok))
    THEN [ok |-> TRUE, value |-> DigitsValue(Tail(tok))]
  ELSE IF AllDigits(tok)
    THEN [ok |-> TRUE, value |-> DigitsValue(tok)]
  ELSE [ok |-> FALSE, value |-> 0]

\* ---------------------------------------------------------- format_size
KiB == 1024

\* f"{x:.2f}" of the quotient num/den, as an integer number of hundredths
Hundredths(num, den) == (200 * num + den) \div (2 * den)

Units == <<"B", "KB", "MB", "GB", "TB">>

RECURSIVE FormatSizeFrom(_, _, _)
FormatSizeFrom(num, den, units) ==
  IF units = <<>> THEN [value |-> Hundredths(num, den), unit |-> "PB"]
  ELSE IF num < KiB * den
    THEN [value |-> Hundredths(num, den), unit |-> Head(units)]
  ELSE FormatSizeFrom(num, den * KiB, Tail(units))

format_size(size_bytes) == FormatSizeFrom(size_bytes, 1, Units)

\* ------------------------------------------------- dict (insertion-ordered)
\* A dict is the sequence of its [key, value] items in insertion order.
DictKeys(d) == {d[j].key : j \in 1..Len(d)}

\* defaultdict(int)[k]
DictGet(d, k) ==
  IF k \in DictKeys(d)
    THEN (CHOOSE it \in {d[j] : j \in 1..Len(d)} : it.key = k).value
  ELSE 0

\* d[k] += v on a defaultdict(int): a new key is appended, an old one keeps
\* its place
DictAdd(d, k, v) ==
  IF k \in DictKeys(d)
    THEN [j \in 1..Len(d) |->
            IF d[j].key = k THEN [key |-> k, value |-> d[j].value + v] ELSE d[j]]
  ELSE Append(d, [key |-> k, value |-> v])

RECURSIVE SumValues(_)
SumValues(d) == IF d = <<>> THEN 0 ELSE Head(d).value + SumValues(Tail(d))

\* ---------------------------------------------------- sorted(reverse=True)
\* Tie handling of a sorted(..., reverse=True) built as "sort ascending, then
\* reverse": equal counts come out in reversed order.
RECURSIVE InsertDescUnstable(_, _)
InsertDescUnstable(s, x) ==
  IF s = <<>> THEN <<x>>
  ELSE IF Head(s).value > x.value
    THEN <<Head(s)>> \o InsertDescUnstable(Tail(s), x)
  ELSE <<x>> \o s

\* One insertion of the stable descending sort: x goes after every item whose
\* count is greater than or equal to its own.
RECURSIVE InsertDesc(_, _)
InsertDesc(s, x) ==
  IF s = <<>> THEN <<x>>
  ELSE IF Head(s).value >= x.value
    THEN <<Head(s)>> \o InsertDesc(Tail(s), x)
  ELSE <<x>> \o s

RECURSIVE SortedFrom(_, _)
SortedFrom(d, acc) ==
  IF d = <<>> THEN acc ELSE SortedFrom(Tail(d), InsertDesc(acc, Head(d)))

\* lines 146-148: sorted(stats['file_types'].items(), key=count, reverse=True)
sorted_types(file_types_dict) == SortedFrom(file_types_dict, <<>>)

\* ----------------------------------------------------------- scan_folder
\* Python truthiness of an optional string and of an optional integer
StrTruthy(opt) == opt /= None /\ opt[1] /= EmptyStr
IntTruthy(opt) == opt /= None /\ opt[1] /= 0

\* the normalization without the lower() of line 41
NormalizeFilterNoLower(f) ==
  IF StrTruthy(f)
    THEN Some(IF ~StartsWithDot(f[1]) THEN <<Dot>> \o f[1] ELSE f[1])
  ELSE f

\* lines 38-41
NormalizeFilter(f) ==
  IF StrTruthy(f)
    THEN Some(Lower(IF ~StartsWithDot(f[1]) THEN <<Dot>> \o f[1] ELSE f[1]))
  ELSE f

\* line 76: if filter_extension and extension != filter_extension: continue
ExtFilterSkips(fext, extension) == StrTruthy(fext) /\ extension /= fext[1]

\* the size gate with <= in place of <
SizeFilterSkipsInclusive(msize, file_size) ==
  IntTruthy(msize) /\ file_size <= msize[1]

\* line 80: if min_size and file_size < min_size: continue
SizeFilterSkips(msize, file_size) == IntTruthy(msize) /\ file_size < msize[1]

\* What one iteration of the loop of lines 67-95 does with an entry.
ItemOutcome(item, fext, msize) ==
  IF ~item.is_file THEN "not_file"
  ELSE IF ~item.stat_ok THEN "stat_error"
  ELSE IF ExtFilterSkips(fext, ExtensionOf(item.name)) THEN "ext_filtered"
  ELSE IF SizeFilterSkips(msize, item.st_size) THEN "size_filtered"
  ELSE "counted"

\* the largest-file update with >= in place of >
LargestAfterTieReplaces(acc, k, file_size) ==
  IF file_size >= acc.largest_size
    THEN [largest_file |-> Some(k), largest_size |-> file_size]
  ELSE [largest_file |-> acc.largest_file, largest_size |-> acc.largest_size]

\* lines 86-88; the entry is named by its position k in the traversal
LargestAfter(acc, k, file_size) ==
  IF file_size > acc.largest_size
    THEN [largest_file |-> Some(k), largest_size |-> file_size]
  ELSE [largest_file |-> acc.largest_file, largest_size |-> acc.largest_size]

\* lines 52-57
EmptyStats ==
  [total_files |-> 0, total_size |-> 0, largest_file |-> None,
   largest_size |-> 0, file_types |-> <<>>, file_type_sizes |-> <<>>]

\* the updates without line 92
CountFileNoTypeSize(acc, k, item) ==
  LET ext == ExtensionOf(item.name)
      lg  == LargestAfter(acc, k, item.st_size)
  IN [total_files     |-> acc.total_files + 1,
      total_size      |-> acc.total_size + item.st_size,
      largest_file    |-> lg.largest_file,
      largest_size    |-> lg.largest_size,
      file_types      |-> DictAdd(acc.file_types, ext, 1),
      file_type_sizes |-> acc.file_type_sizes]

\* lines 82-92: the updates made for a counted file
CountFile(acc, k, item) ==
  LET ext == ExtensionOf(item.name)
      lg  == LargestAfter(acc, k, item.st_size)
  IN [total_files     |-> acc.total_files + 1,
      total_size      |-> acc.total_size + item.st_size,
      largest_file    |-> lg.largest_file,
      largest_size    |-> lg.largest_size,
      file_types      |-> DictAdd(acc.file_types, ext, 1),
      file_type_sizes |-> DictAdd(acc.file_type_sizes, ext, item.st_size)]

\* the loop body with lines 82-83 moved above the size gate of line 80
ProcessItemCountsBeforeSizeGate(acc, k, item, fext, msize) ==
  IF ItemOutcome(item, fext, msize) = "counted" THEN CountFile(acc, k, item)
  ELSE IF ItemOutcome(item, fext, msize) = "size_filtered"
    THEN [acc EXCEPT !.total_files = @ + 1, !.total_size = @ + item.st_size]
  ELSE acc

\* lines 67-95: one loop iteration
ProcessItem(acc, k, item, fext, msize) ==
  IF ItemOutcome(item, fext, msize) = "counted" THEN CountFile(acc, k, item)
  ELSE acc

\* lines 67-108: the statistics scan_folder returns for a whole traversal
RECURSIVE WalkFrom(_, _, _, _, _)
WalkFrom(acc, k, items, fext, msize) ==
  IF k > Len(items) THEN acc
  ELSE WalkFrom(ProcessItem(acc, k, items[k], fext, msize), k + 1, items,
                fext, msize)

scan_folder_stats(items, fext_arg, msize) ==
  [stats |-> WalkFrom(EmptyStats, 1, items, NormalizeFilter(fext_arg), msize),
   filter_extension |-> NormalizeFilter(fext_arg),
   min_size |-> msize]

\* ------------------------------------------------------- generate_report
\* lines 111-156: the lines of the report that depend on the statistics.
\* largest_block = None is the single line "No files found".
generate_report(stats, fext, msize, items) ==
  [filter_line  |-> IF StrTruthy(fext) THEN fext ELSE None,
   min_size_line |-> IF IntTruthy(msize) THEN Some(format_size(msize[1])) ELSE None,
   total_files  |-> stats.total_files,
   total_size   |-> format_size(stats.total_size),
   largest_block |->
     IF stats.largest_file /= None
       THEN Some([name |-> items[stats.largest_file[1]].name,
                  path |-> stats.largest_file[1],
                  size |-> format_size(stats.largest_size)])
     ELSE None,
   breakdown |->
     IF stats.file_types /= <<>>
       THEN LET st == sorted_types(stats.file_types)
            IN [j \in 1..Len(st) |->
                  [ext |-> st[j].key, count |-> st[j].value,
                   size |-> format_size(DictGet(stats.file_type_sizes, st[j].key))]]
     ELSE <<>>]

\* ------------------------------------------------------------------ main
FlagExt == <<"-", "-", "e", "x", "t">>
FlagMinSize == <<"-", "-", "m", "i", "n", "-", "s", "i", "z", "e">>

\* lines 185-198.  pos is the 1-based position of sys.argv[i]: pos = i + 1.
RECURSIVE ParseArgs(_, _, _, _)
ParseArgs(argv, pos, fext, msize) ==
  IF pos > Len(argv)
    THEN [error |-> FALSE, at |-> 0, filter_extension |-> fext, min_size |-> msize]
  ELSE IF argv[pos] = FlagExt /\ pos + 1 <= Len(argv)
    THEN ParseArgs(argv, pos + 2, Some(argv[pos + 1]), msize)
  ELSE IF argv[pos] = FlagMinSize /\ pos + 1 <= Len(argv)
    THEN IF ParseInt(argv[pos + 1]).ok
           THEN ParseArgs(argv, pos + 2, fext, Some(ParseInt(argv[pos + 1]).value))
         ELSE [error |-> TRUE, at |-> pos + 1, filter_extension |-> fext,
               min_size |-> msize]
  ELSE ParseArgs(argv, pos + 1, fext, msize)

\* ----------------------------------------------------------------- inputs
Prog == <<"p">>
Dir == <<"d">>

\* command lines: sys.argv
ArgvChoices ==
  { <<Prog>>,
    <<Prog, Dir>>,
    <<Prog, Dir, FlagExt, <<"t">>>>,
    <<Prog, Dir, FlagExt, <<".", "T">>>>,
    <<Prog, Dir, FlagExt, EmptyStr>>,
    <<Prog, Dir, FlagMinSize, <<"1">>>>,
    <<Prog, Dir, FlagMinSize, <<"0">>>>,
    <<Prog, Dir, FlagMinSize, <<"-", "1">>>>,
    <<Prog, Dir, FlagMinSize, <<"x">>>>,
    <<Prog, Dir, FlagExt, <<"T">>, FlagMinSize, <<"2">>>>,
    <<Prog, Dir, FlagMinSize, <<"1">>, FlagExt, <<".", "t">>>>,
    <<Prog, Dir, FlagMinSize>>,
    <<Prog, Dir, FlagExt, FlagMinSize, <<"x">>>> }

FileNames == { <<"a", ".", "T">>, <<"c">> }

\* what folder.rglob('*') can yield: regular files whose stat() succeeds, a
\* file whose stat() raises OSError, and a directory
Entries ==
  {[name |-> n, is_file |-> TRUE, stat_ok |-> TRUE, st_size |-> sz] :
     n \in FileNames, sz \in 0..MaxSize}
  \cup {[name |-> <<"a", ".", "T">>, is_file |-> TRUE, stat_ok |-> FALSE, st_size |-> 0]}
  \cup {[name |-> <<"s">>, is_file |-> FALSE, stat_ok |-> TRUE, st_size |-> 0]}

Trees == UNION {[1..n -> Entries] : n \in 0..MaxItems}

\* ------------------------------------------------------------------ state
VARIABLES
  sys_argv,          \* the command line
  root_kind,         \* "missing", "file" or "dir": what folder_path names
  tree,              \* the entries folder.rglob('*') yields, in its order
  pc,                \* where the process is
  main_filter_extension, \* main's filter_extension (as given after --ext)
  min_size,          \* main's and scan_folder's min_size
  filter_extension,  \* scan_folder's filter_extension (normalized)
  item,              \* number of loop iterations of line 67 completed
  total_files, total_size, largest_file, largest_size,
  file_types, file_type_sizes,
  stdout,            \* what was printed, in order
  exit_code,         \* None while running, Some(status) once terminated
  report_text,       \* generate_report's result, None before
  report_file        \* content of the written report file, None if none

vars ==
  <<sys_argv, root_kind, tree, pc, main_filter_extension, min_size,
    filter_extension, item, total_files, total_size, largest_file,
    largest_size, file_types, file_type_sizes, stdout, exit_code,
    report_text, report_file>>

statsVars ==
  <<total_files, total_size, largest_file, largest_size, file_types,
    file_type_sizes>>

inputVars == <<sys_argv, root_kind, tree>>

\* the accumulator of lines 52-57 as one record
Stats ==
  [total_files |-> total_files, total_size |-> total_size,
   largest_file |-> largest_file, largest_size |-> largest_size,
   file_types |-> file_types, file_type_sizes |-> file_type_sizes]

SetStats(st) ==
  /\ total_files' = st.total_files
  /\ total_size' = st.total_size
  /\ largest_file' = st.largest_file
  /\ largest_size' = st.largest_size
  /\ file_types' = st.file_types
  /\ file_type_sizes' = st.file_type_sizes

Msg(kind, n) == [kind |-> kind, n |-> n]

Init ==
  /\ sys_argv \in ArgvChoices
  /\ root_kind \in {"missing", "file", "dir"}
  /\ tree \in Trees
  /\ root_kind /= "dir" => tree = <<>>
  /\ pc = "main"
  /\ main_filter_extension = None
  /\ min_size = None
  /\ filter_extension = None
  /\ item = 0
  /\ total_files = EmptyStats.total_files
  /\ total_size = EmptyStats.total_size
  /\ largest_file = EmptyStats.largest_file
  /\ largest_size = EmptyStats.largest_size
  /\ file_types = EmptyStats.file_types
  /\ file_type_sizes = EmptyStats.file_type_sizes
  /\ stdout = <<>>
  /\ exit_code = None
  /\ report_text = None
  /\ report_file = None

Exit(status, msg) ==
  /\ pc' = "exit"
  /\ exit_code' = Some(status)
  /\ stdout' = Append(stdout, msg)

\* lines 173-178: no folder argument
MainUsage ==
  /\ pc = "main"
  /\ Len(sys_argv) < 2
  /\ Exit(1, Msg("usage", 0))
  /\ UNCHANGED <<inputVars, main_filter_extension, min_size, filter_extension,
                 item, statsVars, report_text, report_file>>

\* lines 180-198, the ValueError branch of lines 193-195
MainParseError ==
  /\ pc = "main"
  /\ Len(sys_argv) >= 2
  /\ LET r == ParseArgs(sys_argv, 3, None, None)
     IN /\ r.error
        /\ main_filter_extension' = r.filter_extension
        /\ min_size' = r.min_size
        /\ Exit(1, Msg("invalid_size", r.at))
  /\ UNCHANGED <<inputVars, filter_extension, item, statsVars, report_text,
                 report_file>>

\* lines 180-204: arguments parsed, scan_folder is called
MainParse ==
  /\ pc = "main"
  /\ Len(sys_argv) >= 2
  /\ LET r == ParseArgs(sys_argv, 3, None, None)
     IN /\ ~r.error
        /\ main_filter_extension' = r.filter_extension
        /\ min_size' = r.min_size
        /\ filter_extension' = r.filter_extension
  /\ pc' = "scan_folder"
  /\ UNCHANGED <<inputVars, item, statsVars, stdout, exit_code, report_text,
                 report_file>>

\* scan_folder without the exit of line 45
ScanRootMissingNoExit ==
  /\ pc = "scan_folder"
  /\ root_kind = "missing"
  /\ filter_extension' = NormalizeFilter(filter_extension)
  /\ SetStats(EmptyStats)
  /\ item' = 0
  /\ stdout' = Append(stdout, Msg("not_exist", 0))
  /\ pc' = "walk"
  /\ UNCHANGED <<inputVars, main_filter_extension, min_size, exit_code,
                 report_text, report_file>>

\* lines 35-45
ScanRootMissing ==
  /\ pc = "scan_folder"
  /\ root_kind = "missing"
  /\ filter_extension' = NormalizeFilter(filter_extension)
  /\ Exit(1, Msg("not_exist", 0))
  /\ UNCHANGED <<inputVars, main_filter_extension, min_size, item, statsVars,
                 report_text, report_file>>

\* lines 35-49
ScanRootNotDir ==
  /\ pc = "scan_folder"
  /\ root_kind = "file"
  /\ filter_extension' = NormalizeFilter(filter_extension)
  /\ Exit(1, Msg("not_folder", 0))
  /\ UNCHANGED <<inputVars, main_filter_extension, min_size, item, statsVars,
                 report_text, report_file>>

\* lines 35-64: the root is a directory, the accumulators are reset
ScanBegin ==
  /\ pc = "scan_folder"
  /\ root_kind = "dir"
  /\ filter_extension' = NormalizeFilter(filter_extension)
  /\ SetStats(EmptyStats)
  /\ item' = 0
  /\ stdout' = Append(stdout, Msg("scanning", 0))
  /\ pc' = "walk"
  /\ UNCHANGED <<inputVars, main_filter_extension, min_size, exit_code,
                 report_text, report_file>>

\* One iteration of the loop of lines 67-95 whose entry has the given outcome.
WalkStep(outcome) ==
  /\ pc = "walk"
  /\ item < Len(tree)
  /\ ItemOutcome(tree[item + 1], filter_extension, min_size) = outcome
  /\ SetStats(ProcessItem(Stats, item + 1, tree[item + 1], filter_extension,
                          min_size))
  /\ item' = item + 1
  /\ stdout' = IF outcome = "stat_error"
                 THEN Append(stdout, Msg("warning", item + 1))
               ELSE stdout
  /\ UNCHANGED <<inputVars, pc, main_filter_extension, min_size,
                 filter_extension, exit_code, report_text, report_file>>

\* line 68: not a regular file
WalkNotFile == WalkStep("not_file")
\* the try of line 69 wrapped around the loop: the first error ends the walk
WalkStatErrorEndsWalk ==
  /\ pc = "walk"
  /\ item < Len(tree)
  /\ ItemOutcome(tree[item + 1], filter_extension, min_size) = "stat_error"
  /\ item' = Len(tree)
  /\ stdout' = Append(stdout, Msg("warning", item + 1))
  /\ UNCHANGED <<inputVars, pc, main_filter_extension, min_size,
                 filter_extension, statsVars, exit_code, report_text,
                 report_file>>

\* lines 73, 94-95: stat() raised
WalkStatError == WalkStep("stat_error")
\* lines 76-77
WalkExtFiltered == WalkStep("ext_filtered")
\* lines 80-81
WalkSizeFiltered == WalkStep("size_filtered")
\* lines 82-92
WalkCounted == WalkStep("counted")

\* lines 97-108 and 204-210: the loop is over, scan_folder returns, the report
\* is generated and printed
MainReport ==
  /\ pc = "walk"
  /\ item = Len(tree)
  /\ report_text' = Some(generate_report(Stats, filter_extension, min_size, tree))
  /\ stdout' = Append(stdout, Msg("report", 0))
  /\ pc' = "save_report"
  /\ UNCHANGED <<inputVars, main_filter_extension, min_size, filter_extension,
                 item, statsVars, exit_code, report_file>>

\* lines 159-168 and 213-214
SaveReport ==
  /\ pc = "save_report"
  /\ report_file' = report_text
  /\ stdout' = Append(stdout, Msg("saved", 0))
  /\ pc' = "done"
  /\ exit_code' = Some(0)
  /\ UNCHANGED <<inputVars, main_filter_extension, min_size, filter_extension,
                 item, statsVars, report_text>>

Next ==
  \/ MainUsage
  \/ MainParseError
  \/ MainParse
  \/ ScanRootMissing
  \/ ScanRootNotDir
  \/ ScanBegin
  \/ WalkNotFile
  \/ WalkStatError
  \/ WalkExtFiltered
  \/ WalkSizeFiltered
  \/ WalkCounted
  \/ MainReport
  \/ SaveReport

Spec == Init /\ [][Next]_vars

\* ======================================================================
\* Properties
\* ======================================================================
Scanning == pc \in {"walk", "save_report", "done"}
Returned == pc \in {"save_report", "done"}

\* two characters that are the same letter in either case
SameLetter(c, d) ==
  c = d \/ {c, d} \in {{"t", "T"}, {"a", "A"}, {"c", "C"}}

EqIgnoreCase(s, t) ==
  Len(s) = Len(t) /\ \A k \in 1..Len(s) : SameLetter(s[k], t[k])

WithDot(f) == IF Len(f) > 0 /\ f[1] = Dot THEN f ELSE <<Dot>> \o f

\* The filters as the command line gave them.  An extension filter is set
\* when --ext gave a non-empty value; a min-size filter when --min-size gave
\* a value.
ExtFilterSet == main_filter_extension /= None /\ main_filter_extension[1] /= EmptyStr
MinSizeSet == min_size /= None

PassesExt(name) ==
  ExtFilterSet => EqIgnoreCase(ExtensionOf(name), WithDot(main_filter_extension[1]))

PassesMinSize(sz) == MinSizeSet => sz >= min_size[1]

\* entry k is a regular file whose size lookup succeeds and that passes both
\* filters
Qualifies(k) ==
  /\ tree[k].is_file
  /\ tree[k].stat_ok
  /\ PassesExt(tree[k].name)
  /\ PassesMinSize(tree[k].st_size)

QualifiedUpTo(n) == {k \in 1..n : Qualifies(k)}

RECURSIVE SizeSum(_)
SizeSum(ks) ==
  IF ks = {} THEN 0
  ELSE LET k == CHOOSE x \in ks : TRUE IN tree[k].st_size + SizeSum(ks \ {k})

\* C1: total_files is the number of regular files whose size lookup succeeds
\* and that pass the extension filter (if set) and the min-size filter (if
\* set), and total_size is the exact sum of the sizes of exactly those files:
\* over the entries processed so far during the walk, over the whole tree in
\* the returned statistics.
C1_TotalsMatchQualifyingFiles ==
  /\ Scanning =>
       /\ total_files = Cardinality(QualifiedUpTo(item))
       /\ total_size = SizeSum(QualifiedUpTo(item))
  /\ Returned =>
       /\ total_files = Cardinality(QualifiedUpTo(Len(tree)))
       /\ total_size = SizeSum(QualifiedUpTo(Len(tree)))

C1_Witness ==
  /\ pc = "done"
  /\ ExtFilterSet
  /\ MinSizeSet /\ min_size[1] > 0
  /\ total_files >= 1
  /\ \E k \in 1..Len(tree) :
       tree[k].is_file /\ tree[k].stat_ok /\ ~PassesExt(tree[k].name)
  /\ \E k \in 1..Len(tree) :
       /\ tree[k].is_file /\ tree[k].stat_ok
       /\ PassesExt(tree[k].name) /\ ~PassesMinSize(tree[k].st_size)

\* C2: at the end of every loop iteration, whatever happened to the entry,
\* and in the returned statistics, total_files is the sum of the counts in
\* file_types, total_size the sum of the sizes in file_type_sizes, and both
\* maps have the same keys.
C2_TotalsMatchBreakdown ==
  Scanning =>
    /\ total_files = SumValues(file_types)
    /\ total_size = SumValues(file_type_sizes)
    /\ DictKeys(file_types) = DictKeys(file_type_sizes)

C2_Witness ==
  /\ pc = "walk"
  /\ item = Len(tree)
  /\ Cardinality(DictKeys(file_types)) = 2
  /\ total_size > 0
  /\ total_files < item

\* C3 (as claimed): after a scan largest_file is absent exactly when
\* total_files = 0; otherwise it is a counted file at least as large as every
\* counted file, and the report shows "No files found" only when total_files
\* is 0.
C3_LargestPresentIffCounted ==
  Returned =>
    /\ (largest_file = None) <=> (total_files = 0)
    /\ total_files > 0 =>
         /\ largest_file /= None
         /\ largest_file[1] \in QualifiedUpTo(Len(tree))
         /\ \A k \in QualifiedUpTo(Len(tree)) : largest_size >= tree[k].st_size
    /\ report_text[1].largest_block = None => total_files = 0

\* a non-negative integer written in decimal digits
IsNonNegativeInteger(tok) == AllDigits(tok)

\* C4 (as claimed): every token given after --min-size that is not a
\* non-negative integer makes main exit with an error and a non-zero status
\* before scan_folder is called, so no scan runs with an invalid min_size.
C4_InvalidMinSizeRejected ==
  /\ \A pos \in 3..Len(sys_argv) :
       (sys_argv[pos - 1] = FlagMinSize /\ ~IsNonNegativeInteger(sys_argv[pos]))
         => (pc /= "main" =>
               /\ pc = "exit"
               /\ exit_code = Some(1)
               /\ stdout[Len(stdout)].kind = "invalid_size")
  /\ (pc = "scan_folder" \/ Scanning) => (min_size = None \/ min_size[1] >= 0)

ParsedOk == Len(sys_argv) >= 2 /\ ~ParseArgs(sys_argv, 3, None, None).error

\* C5: when the root path does not exist or is not a directory the process
\* prints an error (a different one for each case once the arguments are
\* parsed), exits with a non-zero status, traverses nothing and never reaches
\* save_report: no report is generated or written.
C5_BadRootIsFatal ==
  root_kind /= "dir" =>
    /\ pc \in {"main", "scan_folder", "exit"}
    /\ item = 0
    /\ Stats = EmptyStats
    /\ report_text = None
    /\ report_file = None
    /\ pc = "exit" =>
         /\ exit_code = Some(1)
         /\ Len(stdout) = 1
         /\ ParsedOk =>
              stdout[1].kind = (IF root_kind = "missing" THEN "not_exist"
                                ELSE "not_folder")

C5_Witness ==
  /\ root_kind = "missing"
  /\ pc = "exit"
  /\ exit_code = Some(1)
  /\ stdout[1].kind = "not_exist"
  /\ report_file = None

StatFails(k) == tree[k].is_file /\ ~tree[k].stat_ok

\* C6: a failing size lookup does not abort the scan: the step that meets it
\* prints a warning for that entry, leaves total_files, total_size,
\* largest_file, largest_size, file_types and file_type_sizes unchanged and
\* goes on to the next entry, and the scan returns only after every entry of
\* the traversal has been processed.
C6_StatErrorSkipsEntryOnly ==
  /\ [][(pc = "walk" /\ item < Len(tree) /\ StatFails(item + 1)) =>
          /\ UNCHANGED statsVars
          /\ stdout' = Append(stdout, Msg("warning", item + 1))
          /\ pc' = "walk"
          /\ exit_code' = None
          /\ item' = item + 1]_vars
  /\ [](Returned => item = Len(tree))
  /\ [](pc = "exit" => \A j \in 1..Len(stdout) : stdout[j].kind /= "scanning")

C6_Witness ==
  /\ pc = "done"
  /\ Len(tree) >= 2
  /\ StatFails(1)
  /\ largest_file = Some(2)
  /\ total_files = Len(tree) - 1

\* C7: with a min-size filter of threshold T, a file that passes the other
\* gates is counted exactly when its size is at least T: a file of size
\* exactly T is counted, only strictly smaller files are excluded.
C7_MinSizeBoundaryInclusive ==
  [][(/\ pc = "walk" /\ item < Len(tree)
      /\ MinSizeSet
      /\ tree[item + 1].is_file /\ tree[item + 1].stat_ok
      /\ PassesExt(tree[item + 1].name)) =>
       /\ tree[item + 1].st_size >= min_size[1] =>
            /\ total_files' = total_files + 1
            /\ total_size' = total_size + tree[item + 1].st_size
       /\ tree[item + 1].st_size < min_size[1] => UNCHANGED statsVars]_vars

C7_Witness ==
  /\ pc = "walk"
  /\ item = 1
  /\ MinSizeSet /\ min_size[1] > 0
  /\ tree[1].is_file /\ tree[1].stat_ok
  /\ tree[1].st_size = min_size[1]
  /\ total_files = 1

\* position of the first counted file with the given extension
FirstCounted(ext) ==
  CHOOSE k \in QualifiedUpTo(Len(tree)) :
    /\ ExtensionOf(tree[k].name) = ext
    /\ \A j \in QualifiedUpTo(Len(tree)) :
         ExtensionOf(tree[j].name) = ext => k <= j

\* C8: the rows of the report's breakdown table are the counted extensions
\* in descending order of count, and two extensions with equal count are in
\* the order in which they were first counted during the traversal.
C8_BreakdownSortedStable ==
  report_text /= None =>
    LET rows == report_text[1].breakdown
    IN /\ {rows[j].ext : j \in 1..Len(rows)} = DictKeys(file_types)
       /\ Len(rows) = Len(file_types)
       /\ \A j \in 1..Len(rows) : rows[j].count = DictGet(file_types, rows[j].ext)
       /\ \A a, b \in 1..Len(rows) :
            a < b =>
              /\ rows[a].count >= rows[b].count
              /\ rows[a].count = rows[b].count =>
                   FirstCounted(rows[a].ext) < FirstCounted(rows[b].ext)

C8_Witness ==
  /\ report_text /= None
  /\ Len(report_text[1].breakdown) = 2
  /\ report_text[1].breakdown[1].count = report_text[1].breakdown[2].count
  /\ report_text[1].breakdown[1].ext = NoExtension
  /\ Len(tree) = 3

\* the spellings of one character in either case
LetterCases(c) == {c} \cup {d \in {"t", "T", "a", "A", "c", "C"} : SameLetter(c, d)}

\* the strings that differ from f only in letter case
RECURSIVE CaseVariants(_)
CaseVariants(f) ==
  IF f = <<>> THEN {<<>>}
  ELSE {<<c>> \o w : c \in LetterCases(f[1]), w \in CaseVariants(Tail(f))}

\* the non-empty spellings of the filter f: with or without the leading dot,
\* in any letter case
FilterSpellings(f) ==
  LET bare == IF Len(f) > 0 /\ f[1] = Dot THEN Tail(f) ELSE f
  IN (CaseVariants(bare) \cup {<<Dot>> \o w : w \in CaseVariants(bare)})
       \ {EmptyStr}

\* C9: for the same tree and min-size, every spelling of a set extension
\* filter (with or without the leading dot, in any letter case) yields the
\* statistics and the normalized filter_extension this scan returned, and
\* normalizing the normalized filter changes nothing.
C9_FilterSpellingIrrelevant ==
  (Returned /\ ExtFilterSet) =>
    /\ \A v \in FilterSpellings(main_filter_extension[1]) :
         scan_folder_stats(tree, Some(v), min_size) =
           [stats |-> Stats, filter_extension |-> filter_extension,
            min_size |-> min_size]
    /\ filter_extension[1] \in FilterSpellings(main_filter_extension[1])
    /\ NormalizeFilter(filter_extension) = filter_extension

C9_Witness ==
  /\ pc = "done"
  /\ ExtFilterSet
  /\ main_filter_extension /= filter_extension
  /\ Cardinality(FilterSpellings(main_filter_extension[1])) = 4
  /\ total_files >= 1
  /\ total_files < Cardinality({k \in 1..Len(tree) : tree[k].is_file /\ tree[k].stat_ok})

\* C10: once a largest file is recorded, a step of the walk changes
\* largest_file or largest_size only when its entry is counted and strictly
\* larger than largest_size, and then records that entry; a counted file of
\* equal or smaller size, a filtered-out file and a failed size lookup leave
\* both unchanged.
C10_LargestReplacedOnlyByStrictlyLarger ==
  [][(pc = "walk" /\ item < Len(tree) /\ largest_file /= None) =>
       IF Qualifies(item + 1) /\ tree[item + 1].st_size > largest_size
         THEN /\ largest_file' = Some(item + 1)
              /\ largest_size' = tree[item + 1].st_size
       ELSE UNCHANGED <<largest_file, largest_size>>]_vars

C10_Witness ==
  /\ pc = "walk"
  /\ item = 2
  /\ total_files = 2
  /\ tree[1].st_size = tree[2].st_size
  /\ largest_file = Some(1)

====
